---- MODULE Spec2Model ----
(***************************************************************************)
(* Boot-image acquisition and validation of the HSS (init/hss_boot_init.c). *)
(*                                                                         *)
(* Memory is modelled in words.  A boot image is a header of HeaderSize     *)
(* words (magic, headerCrc, bootImageLength) followed by payload words.     *)
(* The build modelled has CONFIG_SERVICE_BOOT, CONFIG_COMPRESSION, MMC with *)
(* GPT, QSPI without XIP, SPI flash and the payload reader compiled in.     *)
(* HSS_BootInit is single-threaded; pc is its position between the calls    *)
(* it makes to its collaborators (medium reads, decompressor, launch).      *)
(***************************************************************************)
EXTENDS Integers, Sequences, FiniteSets, TLC

\* ---------------------------------------------------------------- bounds
CrcMod == 2      \* CRC values are 0..CrcMod-1 (uint32_t scaled down)
MaxLen == 4      \* largest bootImageLength, in words; size of the DDR window
MaxLBA == 1      \* largest first block a partition lookup reports
MaxCalls == 2    \* validateCrc_ calls recorded in a row (SpecCrc)

\* ------------------------------------------------------ program constants
HeaderSize == 3              \* sizeof(struct HSS_BootImage), in words
mHSS_BOOT_MAGIC == 1         \* the plain sentinel
mHSS_COMPRESSED_MAGIC == 2   \* the compressed sentinel
GPT_LBA_SIZE == 512
CONFIG_SERVICE_BOOT_SPI_FLASH_OFFSET == 1024
\* 0xFFFFFFFF, "no boot image in SPI flash", as the largest value of the
\* model's integers
NoSpiFlashOffset == 2147483647

NULL == "NULL"
DDR == "DDR"                 \* CONFIG_SERVICE_BOOT_DDR_TARGET_ADDR
PAYLOAD == "PAYLOAD"         \* &_payload_start

Magics == {0, mHSS_BOOT_MAGIC, mHSS_COMPRESSED_MAGIC}
CrcValues == 0 .. (CrcMod - 1)
Lengths == HeaderSize .. MaxLen
BodyIdx == 1 .. (MaxLen - HeaderSize)

\* struct HSS_BootImage: the fields this file reads
Headers == [magic : Magics, headerCrc : CrcValues, bootImageLength : Lengths]
Images == [hdr : Headers, body : [BodyIdx -> {0, 1}]]

\* the images found at _payload_start: any header; the words after the
\* header, which no code path of the payload reader copies, are zero
PayloadImages == [hdr : Headers, body : {[i \in BodyIdx |-> 0]}]

\* a zero-initialised struct HSS_BootImage (the global bootImage lives in .bss)
ZeroHeader == [magic |-> 0, headerCrc |-> 0, bootImageLength |-> 0]
ZeroImage == [hdr |-> ZeroHeader, body |-> [i \in BodyIdx |-> 0]]

\* the words of a header / of an image, in memory order
HdrWords(h) == <<h.magic, h.headerCrc, h.bootImageLength>>
Words(img) == HdrWords(img.hdr) \o [i \in BodyIdx |-> img.body[i]]
ImageOf(w) ==
    [hdr |-> [magic |-> w[1], headerCrc |-> w[2], bootImageLength |-> w[3]],
     body |-> [i \in BodyIdx |-> w[HeaderSize + i]]]

RECURSIVE SumWords(_, _)
SumWords(w, n) == IF n <= 0 THEN 0 ELSE w[n] + SumWords(w, n - 1)

Min(a, b) == IF a < b THEN a ELSE b

\* CRC32_calculate(buffer, length): a checksum over the first `length` words
CRC32_calculate(w, n) == SumWords(w, Min(n, Len(w))) % CrcMod

\* a block read of `count` words into a region: the first `count` words are
\* replaced by the medium's, the rest of the region keeps its bytes
CopyWords(dst, src, count) ==
    ImageOf([i \in 1 .. MaxLen |->
                IF i <= count THEN Words(src)[i] ELSE Words(dst)[i]])

\* ------------------------------------------------------- integrity checks
\* faulty variant: only the plain sentinel is recognised
verifyMagic_PlainOnly(pBootImage) == pBootImage.magic = mHSS_BOOT_MAGIC

\* faulty variant: any magic is recognised
verifyMagic_Any(pBootImage) == TRUE

\* "(pBootImage->magic == mHSS_BOOT_MAGIC) ||
\*  (pBootImage->magic == mHSS_COMPRESSED_MAGIC)"
verifyMagic_(pBootImage) ==
    (pBootImage.magic = mHSS_BOOT_MAGIC) \/ (pBootImage.magic = mHSS_COMPRESSED_MAGIC)

\* variants of validateCrc_ with a fault seeded: no restore, no zeroing
validateCrc_NoRestore(pImageHdr) ==
    LET originalCrc == pImageHdr.headerCrc
        zeroed == [pImageHdr EXCEPT !.headerCrc = 0]
        headerCrc == CRC32_calculate(HdrWords(zeroed), HeaderSize)
    IN  [result |-> (headerCrc = originalCrc), hdr |-> zeroed]

validateCrc_NoZero(pImageHdr) ==
    LET originalCrc == pImageHdr.headerCrc
        headerCrc == CRC32_calculate(HdrWords(pImageHdr), HeaderSize)
    IN  [result |-> (headerCrc = originalCrc), hdr |-> pImageHdr]

\* validateCrc_: the boolean it returns and the header it leaves behind
validateCrc_(pImageHdr) ==
    LET originalCrc == pImageHdr.headerCrc
        zeroed == [pImageHdr EXCEPT !.headerCrc = 0]
        headerCrc == CRC32_calculate(HdrWords(zeroed), HeaderSize)
        restored == [zeroed EXCEPT !.headerCrc = originalCrc]
    IN  [result |-> (headerCrc = originalCrc), hdr |-> restored]

\* ------------------------------------------------------------------ state
VARIABLES
    getBootImageFunction,  \* the active reader
    bootImage,             \* the global scratch header
    ddr,                   \* the image window at the DDR target address
    payload,               \* the image found at _payload_start by the current run
    pc,                    \* position of HSS_BootInit
    result,                \* HSS_BootInit's local
    decompressedFlag,      \* HSS_BootInit's local
    pBootImage,            \* HSS_BootInit's local
    run,                   \* what the current/last run of HSS_BootInit did
    crcHdr,                \* SpecCrc: the header validateCrc_ is called on
    crcLog,                \* SpecCrc: the calls made so far
    lastSelect,            \* the reader named by the last selection call
    config                 \* the build configuration (fixed at compile time)

vars == <<getBootImageFunction, bootImage, ddr, payload, pc, result,
          decompressedFlag, pBootImage, run, crcHdr, crcLog, lastSelect, config>>

bootVars == <<getBootImageFunction, bootImage, ddr, payload, pc, result,
              decompressedFlag, pBootImage, run, lastSelect, config>>

Readers == {"SpiFlash", "MMC", "QSPI", "Payload"}
BlockCopyReaders == {"SpiFlash", "MMC", "QSPI"}

EmptyRun ==
    [reader |-> "none",        \* the reader HSS_BootInit invoked
     srcOffset |-> 0,          \* the reader's local srcOffset
     gpt |-> "none",           \* the partition lookup: "ok" / "failed"
     hdrRead |-> "none",       \* first read: "ok" / "failed"
     hdrOff |-> 0,             \* its byte offset
     hdrFn |-> "none",         \* its read primitive
     magic |-> "none",         \* verifyMagic_ in the reader: "ok" / "failed"
     copy |-> "none",          \* second read: "ok" / "failed"
     copyOff |-> 0, copyCount |-> 0, copyFn |-> "none", copyDst |-> NULL,
     acquire |-> "none",       \* the reader's return value: "ok" / "failed"
     acquiredPtr |-> NULL,     \* *ppBootImage when the reader returned
     acquiredMagic |-> 0,      \* the magic there when the reader returned
     nullDeref |-> FALSE,      \* a NULL image pointer was dereferenced
     decompress |-> 0,         \* number of HSS_Decompress calls
     outputSize |-> 0,         \* what HSS_Decompress returned
     crcChecks |-> 0,          \* number of validateCrc_ calls
     crcInput |-> ZeroHeader,  \* the header validateCrc_ was called on
     crcOk |-> FALSE,          \* what validateCrc_ returned
     registered |-> 0,         \* number of HSS_Register_Boot_Image calls
     regPtr |-> NULL,          \* its argument
     regHdr |-> ZeroHeader,    \* the header there at the call
     launched |-> 0,           \* number of launch-collaborator calls
     launchOk |-> FALSE,       \* what the launch collaborator returned
     fullCrc |-> 0,            \* number of diagnostic full-length CRCs
     fullCrcLen |-> 0,         \* the length it covered
     trace |-> <<>>]           \* the stages, in order

\* ------------------------------------------------- build configuration
\* the options that decide which readers exist and which one is initial
BuildConfigs ==
    [CONFIG_SERVICE_SPI : BOOLEAN,
     SPI_FLASH_OFFSET : {CONFIG_SERVICE_BOOT_SPI_FLASH_OFFSET, NoSpiFlashOffset},
     CONFIG_SERVICE_MMC : BOOLEAN,
     CONFIG_SERVICE_QSPI : BOOLEAN,
     CONFIG_SERVICE_BOOT_USE_PAYLOAD : BOOLEAN]

\* the build of Spec: every reader compiled in, a boot image in SPI flash
FullBuild ==
    [CONFIG_SERVICE_SPI |-> TRUE,
     SPI_FLASH_OFFSET |-> CONFIG_SERVICE_BOOT_SPI_FLASH_OFFSET,
     CONFIG_SERVICE_MMC |-> TRUE,
     CONFIG_SERVICE_QSPI |-> TRUE,
     CONFIG_SERVICE_BOOT_USE_PAYLOAD |-> TRUE]

\* the value of the macro SPI_FLASH_BOOT_ENABLED
SPI_FLASH_BOOT_ENABLED(c) ==
    IF c.CONFIG_SERVICE_SPI THEN c.SPI_FLASH_OFFSET # NoSpiFlashOffset ELSE FALSE

\* "defined(SPI_FLASH_BOOT_ENABLED)": both branches of the #if that
\* introduces the macro define it
defined_SPI_FLASH_BOOT_ENABLED(c) == TRUE

\* the initializer of getBootImageFunction
InitialReader(c) ==
    IF defined_SPI_FLASH_BOOT_ENABLED(c) THEN "SpiFlash"
    ELSE IF c.CONFIG_SERVICE_MMC THEN "MMC"
    ELSE IF c.CONFIG_SERVICE_QSPI THEN "QSPI"
    ELSE IF c.CONFIG_SERVICE_BOOT_USE_PAYLOAD THEN "Payload"
    ELSE "error"

\* the reader function, and its selection function, exist in the build
ReaderCompiled(c, reader) ==
    CASE reader = "SpiFlash" -> c.CONFIG_SERVICE_SPI
      [] reader = "MMC" -> c.CONFIG_SERVICE_MMC
      [] reader = "QSPI" -> c.CONFIG_SERVICE_QSPI
      [] reader = "Payload" -> c.CONFIG_SERVICE_BOOT_USE_PAYLOAD
      [] OTHER -> FALSE

Init ==
    /\ config = FullBuild
    /\ getBootImageFunction = InitialReader(config)
    /\ bootImage = ZeroHeader
    /\ ddr \in Images
    /\ payload = ZeroImage
    /\ pc = "idle"
    /\ result = FALSE
    /\ decompressedFlag = FALSE
    /\ pBootImage = NULL
    /\ run = EmptyRun
    /\ crcHdr = ZeroHeader
    /\ crcLog = <<>>
    /\ lastSelect = "none"


\* --------------------------------------------------------------- helpers
Deref(p) == IF p = DDR THEN ddr ELSE payload

BoolStr(b) == IF b THEN "ok" ELSE "failed"

\* the per-medium read primitive a block-copy reader hands to its two reads
HdrReadFn(reader) ==
    CASE reader = "MMC" -> "HSS_MMC_ReadBlock"
      [] reader = "QSPI" -> "HSS_QSPI_ReadBlock"
      [] OTHER -> "spiFlashReadBlock_"

CopyFn(reader) ==
    CASE reader = "MMC" -> "HSS_MMC_ReadBlock"
      [] reader = "QSPI" -> "HSS_QSPI_ReadBlock"
      [] OTHER -> "spiFlashReadBlock_"

\* the byte offset of the header read, and of the full-image read
HdrReadOffset(reader, srcOffset) ==
    IF reader = "MMC" THEN srcOffset * GPT_LBA_SIZE ELSE srcOffset

\* faulty variant: the block number handed on without scaling
CopyOffset_Unscaled(reader, srcOffset) == srcOffset

CopyOffset(reader, srcOffset) ==
    IF reader = "MMC" THEN srcOffset * GPT_LBA_SIZE ELSE srcOffset

\* does the reader test the result of its header read before going on?
\* (getBootImageFromQSPI_ drops the return value of HSS_QSPI_ReadBlock)
HdrReadChecked(reader) == reader # "QSPI"

\* ------------------------------------------------- the block-copy readers
\* HSS_BootInit's entry and the reader's first part: the header read into
\* the scratch buffer and verifyMagic_ on it.  A failed read leaves the
\* destination undefined: any header, including the one already there.
ReadHeader(reader, gpt, srcOffset) ==
    \E ok \in BOOLEAN :
      \E h \in (IF ok THEN Headers ELSE Headers \cup {bootImage}) :
        LET tested == ok \/ ~HdrReadChecked(reader)
            magicOk == verifyMagic_(h)
            go == tested /\ magicOk
        IN  /\ bootImage' = h
            /\ payload' = ZeroImage
            /\ result' = FALSE
            /\ decompressedFlag' = FALSE
            /\ pBootImage' = NULL
            /\ pc' = IF go THEN "copy" ELSE "acquired"
            /\ run' = [EmptyRun EXCEPT
                         !.reader = reader,
                         !.srcOffset = srcOffset,
                         !.gpt = gpt,
                         !.hdrRead = BoolStr(ok),
                         !.hdrOff = HdrReadOffset(reader, srcOffset),
                         !.hdrFn = HdrReadFn(reader),
                         !.magic = IF tested THEN BoolStr(magicOk) ELSE "none",
                         !.acquire = IF go THEN "none" ELSE "failed",
                         !.trace = <<"acquire">>]
            /\ UNCHANGED <<getBootImageFunction, ddr, crcHdr, crcLog, lastSelect, config>>

\* the partition lookup of the MMC reader: the GPT call that failed, or the
\* first block of the partition found
GptLookups ==
    {[ok |-> FALSE, at |-> s, firstLBA |-> 0] :
        s \in {"GPT_ReadHeader", "GPT_ValidateHeader",
               "GPT_ValidatePartitionEntries", "GPT_FindPartitionByTypeId"}}
    \cup {[ok |-> TRUE, at |-> "found", firstLBA |-> l] : l \in 1 .. MaxLBA}

mmcSrcOffset(lookup) == IF lookup.ok THEN lookup.firstLBA ELSE 0

\* faulty variant: the generic path guarded by the lookup's result
mmcGenericPath_IfResult(lookup) == lookup.ok

\* "Even if we have GPT enabled and it fails to find a GPT parttion, we'll
\* still try to boot": the guard of the generic path is commented out
mmcGenericPath(lookup) == TRUE

getBootImageFromMMC_ ==
    /\ pc = "idle"
    /\ getBootImageFunction = "MMC"
    /\ \E lookup \in GptLookups :
         IF mmcGenericPath(lookup)
         THEN ReadHeader("MMC", BoolStr(lookup.ok), mmcSrcOffset(lookup))
         ELSE /\ pc' = "acquired"
              /\ payload' = ZeroImage
              /\ result' = FALSE
              /\ decompressedFlag' = FALSE
              /\ pBootImage' = NULL
              /\ run' = [EmptyRun EXCEPT !.reader = "MMC", !.gpt = BoolStr(lookup.ok),
                                         !.acquire = "failed",
                                         !.trace = <<"acquire">>]
              /\ UNCHANGED <<getBootImageFunction, bootImage, ddr, crcHdr, crcLog, lastSelect, config>>

getBootImageFromQSPI_ ==
    /\ pc = "idle"
    /\ getBootImageFunction = "QSPI"
    /\ ReadHeader("QSPI", "none", 0)

getBootImageFromSpiFlash_ ==
    /\ pc = "idle"
    /\ getBootImageFunction = "SpiFlash"
    /\ ReadHeader("SpiFlash", "none", config.SPI_FLASH_OFFSET)

\* faulty variant: the reader stores no pointer
ptrStoredAfterCopy_None(ok) == NULL

\* "*ppBootImage = (struct HSS_BootImage *)(CONFIG_SERVICE_BOOT_DDR_TARGET_ADDR);"
\* follows the call of copyBootImageToDDR_ whatever it returned
ptrStoredAfterCopy(ok) == DDR

\* the reader's second part: bootImageLength words from the medium to the
\* DDR target; *ppBootImage is set whatever the read returned
copyBootImageToDDR_ ==
    /\ pc = "copy"
    /\ \E ok \in BOOLEAN :
         \E src \in Images :
           LET count == bootImage.bootImageLength
               new == IF ok THEN CopyWords(ddr, src, count) ELSE src
           IN  /\ ddr' = new
               /\ pBootImage' = ptrStoredAfterCopy(ok)
               /\ result' = ok
               /\ pc' = "acquired"
               /\ run' = [run EXCEPT
                            !.copy = BoolStr(ok),
                            !.copyOff = CopyOffset(run.reader, run.srcOffset),
                            !.copyCount = count,
                            !.copyFn = CopyFn(run.reader),
                            !.copyDst = DDR,
                            !.acquire = BoolStr(ok),
                            !.acquiredPtr = ptrStoredAfterCopy(ok),
                            !.acquiredMagic = new.hdr.magic]
               /\ UNCHANGED <<getBootImageFunction, bootImage, payload,
                              decompressedFlag, crcHdr, crcLog, lastSelect, config>>

\* ------------------------------------------------------ the payload reader
getBootImageFromPayload_ ==
    /\ pc = "idle"
    /\ getBootImageFunction = "Payload"
    /\ \E img \in PayloadImages :
         LET magicOk == verifyMagic_(img.hdr)
         IN  /\ payload' = img
             /\ pBootImage' = PAYLOAD
             /\ result' = magicOk
             /\ decompressedFlag' = FALSE
             /\ pc' = "acquired"
             /\ run' = [EmptyRun EXCEPT
                          !.reader = "Payload",
                          !.magic = BoolStr(magicOk),
                          !.acquire = BoolStr(magicOk),
                          !.acquiredPtr = PAYLOAD,
                          !.acquiredMagic = img.hdr.magic,
                          !.trace = <<"acquire">>]
             /\ UNCHANGED <<getBootImageFunction, bootImage, ddr, crcHdr, crcLog, lastSelect, config>>


\* ------------------------------------------------- the decompression stage
\* what HSS_Decompress may return: an error, nothing, or a size
DecompressSizes == {-1, 0, MaxLen}

\* faulty variant: the magic alone decides
isCompressed_NoResult(res, magic) == magic = mHSS_COMPRESSED_MAGIC

\* "if (result && pBootImage->magic == mHSS_COMPRESSED_MAGIC)"
isCompressed(res, magic) == res /\ (magic = mHSS_COMPRESSED_MAGIC)

\* "if (outputSize) pBootImage = pOutputInDDR; else pBootImage = NULL;"
afterDecompress(outputSize) == IF outputSize # 0 THEN DDR ELSE NULL

\* The magic read through pBootImage.  With result true and the pointer
\* NULL the read is undefined: any value.  With result false && does not
\* evaluate it.
MagicRead ==
    IF pBootImage # NULL THEN {Deref(pBootImage).hdr.magic}
    ELSE IF result THEN Magics ELSE {0}

HSS_BootInit_Decompress ==
    /\ pc = "acquired"
    /\ \E magic \in MagicRead :
         IF isCompressed(result, magic)
         THEN IF pBootImage = NULL
              THEN /\ result' = FALSE
                   /\ decompressedFlag' = TRUE
                   /\ pc' = "validate"
                   /\ run' = [run EXCEPT !.nullDeref = TRUE]
                   /\ UNCHANGED <<getBootImageFunction, bootImage, ddr, payload,
                                  pBootImage, crcHdr, crcLog, lastSelect, config>>
              ELSE \E outputSize \in DecompressSizes :
                     \E out \in Images :
                       /\ ddr' = out
                       /\ pBootImage' = afterDecompress(outputSize)
                       /\ decompressedFlag' = TRUE
                       /\ pc' = "validate"
                       /\ run' = [run EXCEPT
                                    !.decompress = @ + 1,
                                    !.outputSize = outputSize,
                                    !.trace = Append(@, "decompress")]
                       /\ UNCHANGED <<getBootImageFunction, bootImage, payload,
                                      result, crcHdr, crcLog, lastSelect, config>>
         ELSE /\ pc' = "validate"
              /\ run' = [run EXCEPT !.nullDeref = (result /\ pBootImage = NULL)]
              /\ UNCHANGED <<getBootImageFunction, bootImage, ddr, payload, result,
                             decompressedFlag, pBootImage, crcHdr, crcLog, lastSelect, config>>

\* --------------------------------------------------- the validation stage
\* the branch "boot image failed CRC" assigns nothing to result
resultAfterCrcFailure(res) == res

\* faulty variant: the comparison with IPI_SUCCESS inverted
resultOfLaunch_Inverted(launchOk) == ~launchOk

\* "if (HSS_Boot_RestartCore(HSS_HART_ALL) == IPI_SUCCESS) result = true;
\* else result = false;" (or "result = HSS_Boot_Custom();")
resultOfLaunch(launchOk) == launchOk

\* faulty variant: the magic test dropped
magicIsPlain_Any(magic) == TRUE

\* "pBootImage->magic != mHSS_BOOT_MAGIC" fails the image
magicIsPlain(magic) == magic = mHSS_BOOT_MAGIC

\* faulty variant: the CRC over bootImageLength words gates as well
imageAccepted_FullCrc(img) ==
    /\ validateCrc_(img.hdr).result
    /\ CRC32_calculate(Words(img), img.hdr.bootImageLength) = 0

\* "else if (validateCrc_(pBootImage))": the gate of registration
imageAccepted(img) == validateCrc_(img.hdr).result

\* validation, registration, launch and return
HSS_BootInit_Validate ==
    /\ pc = "validate"
    /\ pc' = "done"
    /\ UNCHANGED <<getBootImageFunction, bootImage, decompressedFlag, pBootImage,
                   crcHdr, crcLog, lastSelect, config>>
    /\ IF pBootImage = NULL
       THEN /\ result' = FALSE
            /\ run' = [run EXCEPT !.trace = Append(@, "return")]
            /\ UNCHANGED <<ddr, payload>>
       ELSE IF ~magicIsPlain(Deref(pBootImage).hdr.magic)
       THEN /\ result' = FALSE
            /\ run' = [run EXCEPT !.trace = Append(@, "return")]
            /\ UNCHANGED <<ddr, payload>>
       ELSE LET img == Deref(pBootImage)
                v == validateCrc_(img.hdr)
                after == [img EXCEPT !.hdr = v.hdr]
            IN  /\ ddr' = IF pBootImage = DDR THEN after ELSE ddr
                /\ payload' = IF pBootImage = PAYLOAD THEN after ELSE payload
                /\ IF imageAccepted(img)
                   THEN \E launchOk \in BOOLEAN :
                          /\ result' = resultOfLaunch(launchOk)
                          /\ run' = [run EXCEPT
                                       !.crcChecks = @ + 1,
                                       !.crcInput = img.hdr,
                                       !.crcOk = TRUE,
                                       !.registered = @ + 1,
                                       !.regPtr = pBootImage,
                                       !.regHdr = after.hdr,
                                       !.launched = @ + 1,
                                       !.launchOk = launchOk,
                                       !.trace = @ \o <<"validate", "register",
                                                        "launch", "return">>]
                   ELSE /\ result' = resultAfterCrcFailure(result)
                        /\ run' = [run EXCEPT
                                     !.crcChecks = @ + 1,
                                     !.crcInput = img.hdr,
                                     !.crcOk = FALSE,
                                     !.fullCrc = @ + 1,
                                     !.fullCrcLen = after.hdr.bootImageLength,
                                     !.trace = @ \o <<"validate", "crc32", "return">>]

\* faulty variant: a failed run falls back to the MMC reader
HSS_BootInit_Return_Fallback ==
    /\ pc = "done"
    /\ pc' = "idle"
    /\ getBootImageFunction' = IF result THEN getBootImageFunction ELSE "MMC"
    /\ result' = FALSE
    /\ decompressedFlag' = FALSE
    /\ pBootImage' = NULL
    /\ payload' = ZeroImage
    /\ run' = EmptyRun
    /\ UNCHANGED <<bootImage, ddr, crcHdr, crcLog, lastSelect, config>>

\* "return result;": the locals go out of scope, the caller has the result;
\* HSS_BootInit assigns nothing to getBootImageFunction
HSS_BootInit_Return ==
    /\ pc = "done"
    /\ pc' = "idle"
    /\ result' = FALSE
    /\ decompressedFlag' = FALSE
    /\ pBootImage' = NULL
    /\ payload' = ZeroImage
    /\ run' = EmptyRun
    /\ UNCHANGED <<getBootImageFunction, bootImage, ddr, crcHdr, crcLog, lastSelect, config>>

\* --------------------------------------------------- the selection calls
\* faulty variant: the selection also clears the scratch header
Select_ClearScratch(reader) ==
    /\ pc = "idle"
    /\ getBootImageFunction' = reader
    /\ bootImage' = ZeroHeader
    /\ UNCHANGED <<ddr, payload, pc, result, decompressedFlag,
                   pBootImage, run, crcHdr, crcLog, config>>

\* "getBootImageFunction = getBootImageFromX_;" and nothing else.  The
\* calls are made between runs of HSS_BootInit.
Select(reader) ==
    /\ pc = "idle"
    /\ getBootImageFunction' = reader
    /\ UNCHANGED <<bootImage, ddr, payload, pc, result, decompressedFlag,
                   pBootImage, run, crcHdr, crcLog, config>>

HSS_BootSelectMMC == Select("MMC") /\ lastSelect' = "MMC"
HSS_BootSelectQSPI == Select("QSPI") /\ lastSelect' = "QSPI"
HSS_BootSelectPayload == Select("Payload") /\ lastSelect' = "Payload"
HSS_BootSelectSPI == Select("SpiFlash") /\ lastSelect' = "SpiFlash"

Next ==
    \/ getBootImageFromSpiFlash_
    \/ getBootImageFromMMC_
    \/ getBootImageFromQSPI_
    \/ getBootImageFromPayload_
    \/ copyBootImageToDDR_
    \/ HSS_BootInit_Decompress
    \/ HSS_BootInit_Validate
    \/ HSS_BootInit_Return
    \/ HSS_BootSelectMMC
    \/ HSS_BootSelectQSPI
    \/ HSS_BootSelectPayload
    \/ HSS_BootSelectSPI

Spec == Init /\ [][Next]_vars


\* --------------------------------------------- the program of any build
\* The builds that compile: the function the initializer names is declared.
\* A selection function exists when its reader does.
InitBuild ==
    /\ config \in {c \in BuildConfigs : ReaderCompiled(c, InitialReader(c))}
    /\ getBootImageFunction = InitialReader(config)
    /\ bootImage = ZeroHeader
    /\ ddr \in Images
    /\ payload = ZeroImage
    /\ pc = "idle"
    /\ result = FALSE
    /\ decompressedFlag = FALSE
    /\ pBootImage = NULL
    /\ run = EmptyRun
    /\ crcHdr = ZeroHeader
    /\ crcLog = <<>>
    /\ lastSelect = "none"

NextBuild ==
    \/ getBootImageFromSpiFlash_
    \/ getBootImageFromMMC_
    \/ getBootImageFromQSPI_
    \/ getBootImageFromPayload_
    \/ copyBootImageToDDR_
    \/ HSS_BootInit_Decompress
    \/ HSS_BootInit_Validate
    \/ HSS_BootInit_Return
    \/ (ReaderCompiled(config, "MMC") /\ HSS_BootSelectMMC)
    \/ (ReaderCompiled(config, "QSPI") /\ HSS_BootSelectQSPI)
    \/ (ReaderCompiled(config, "Payload") /\ HSS_BootSelectPayload)
    \/ (ReaderCompiled(config, "SpiFlash") /\ HSS_BootSelectSPI)

SpecBuild == InitBuild /\ [][NextBuild]_vars

\* ------------------------------------------- validateCrc_ on its own
\* The header under test is any header; the environment may rewrite it
\* between calls.  crcLog keeps the calls and rewrites made, in order.
InitCrc ==
    /\ config = FullBuild
    /\ getBootImageFunction = InitialReader(config)
    /\ bootImage = ZeroHeader
    /\ ddr = ZeroImage
    /\ payload = ZeroImage
    /\ pc = "idle"
    /\ result = FALSE
    /\ decompressedFlag = FALSE
    /\ pBootImage = NULL
    /\ run = EmptyRun
    /\ crcHdr \in Headers
    /\ crcLog = <<>>
    /\ lastSelect = "none"

CallValidateCrc ==
    /\ Len(crcLog) < MaxCalls
    /\ LET v == validateCrc_(crcHdr)
       IN  /\ crcHdr' = v.hdr
           /\ crcLog' = Append(crcLog, [op |-> "call", before |-> crcHdr,
                                        after |-> v.hdr, result |-> v.result])
    /\ UNCHANGED bootVars

MutateHeader ==
    /\ Len(crcLog) < MaxCalls
    /\ \E h \in Headers \ {crcHdr} :
         /\ crcHdr' = h
         /\ crcLog' = Append(crcLog, [op |-> "mutate", before |-> crcHdr,
                                      after |-> h, result |-> FALSE])
    /\ UNCHANGED bootVars

\* verifyMagic_ takes a pointer to const: the header stays as it is
CallVerifyMagic ==
    /\ Len(crcLog) < MaxCalls
    /\ crcHdr' = crcHdr
    /\ crcLog' = Append(crcLog, [op |-> "magic", before |-> crcHdr,
                                 after |-> crcHdr, result |-> verifyMagic_(crcHdr)])
    /\ UNCHANGED bootVars

NextCrc == CallValidateCrc \/ CallVerifyMagic \/ MutateHeader

SpecCrc == InitCrc /\ [][NextCrc]_vars

\* ================================================================ claims
\* the stored header CRC equals the CRC of the header with the field zeroed
CrcMatches(h) ==
    CRC32_calculate(HdrWords([h EXCEPT !.headerCrc = 0]), HeaderSize) = h.headerCrc

\* C1: a run whose reader succeeded with a non-null plain image whose header
\* CRC does not match returns false, registers and launches nothing, and
\* computes the diagnostic full-length CRC.
C1_CrcMismatchFails ==
    (/\ pc = "done"
     /\ run.acquire = "ok"
     /\ run.acquiredPtr # NULL
     /\ run.acquiredMagic = mHSS_BOOT_MAGIC
     /\ ~CrcMatches(Deref(run.acquiredPtr).hdr))
    => (/\ result = FALSE
        /\ run.registered = 0
        /\ run.launched = 0
        /\ run.fullCrc = 1)

\* C2: a run whose reader returned failure returns false and makes no header
\* CRC check, no registration and no launch.
C2_ReaderFailureStops ==
    (pc = "done" /\ run.acquire = "failed")
    => (/\ result = FALSE
        /\ run.crcChecks = 0
        /\ run.registered = 0
        /\ run.launched = 0)

\* C3: HSS_Register_Boot_Image is called at most once per run and only with a
\* non-null pointer whose header has the plain magic and a header CRC that
\* validateCrc_ has just found matching; a final pointer whose magic is not
\* plain is never registered.
C3_RegisterOnlyValidated ==
    /\ run.registered <= 1
    /\ run.registered = 1
         => (/\ run.regPtr # NULL
             /\ run.regHdr.magic = mHSS_BOOT_MAGIC
             /\ CrcMatches(run.regHdr)
             /\ run.crcChecks = 1
             /\ run.crcOk
             /\ run.crcInput = run.regHdr)
    /\ (pc = "done" /\ pBootImage # NULL
          /\ Deref(pBootImage).hdr.magic # mHSS_BOOT_MAGIC)
         => run.registered = 0

C3_Witness ==
    /\ pc = "done"
    /\ run.registered = 1
    /\ run.decompress = 1
    /\ run.regPtr = DDR

\* C4: in a block-copy reader a failed header read is followed by no second
\* read, the reader reports failure, and the run makes no CRC check and no
\* registration.
C4_HeaderReadFailureStops ==
    (run.reader \in BlockCopyReaders /\ run.hdrRead = "failed")
    => (/\ run.copy = "none"
        /\ run.acquire # "ok"
        /\ run.crcChecks = 0
        /\ run.registered = 0
        /\ (pc = "done" => result = FALSE))

\* C5 (as stated): a reader yielding a non-null plain image with a correct
\* header CRC makes the run register that pointer and return true.
C5_ValidImageReturnsTrue ==
    (/\ pc = "done"
     /\ run.acquire = "ok"
     /\ run.acquiredPtr # NULL
     /\ run.acquiredMagic = mHSS_BOOT_MAGIC
     /\ CrcMatches(Deref(run.acquiredPtr).hdr))
    => (/\ run.registered = 1
        /\ run.regPtr = run.acquiredPtr
        /\ result = TRUE)

\* C5 (amended): a reader yielding a non-null plain image with a correct
\* header CRC makes the run register that pointer and invoke the launch
\* collaborator once; the run returns true exactly when the launch
\* collaborator reports success.
C5_ValidImageRegistered ==
    (/\ pc = "done"
     /\ run.acquire = "ok"
     /\ run.acquiredPtr # NULL
     /\ run.acquiredMagic = mHSS_BOOT_MAGIC
     /\ CrcMatches(Deref(run.acquiredPtr).hdr))
    => (/\ run.registered = 1
        /\ run.regPtr = run.acquiredPtr
        /\ run.launched = 1
        /\ result = run.launchOk)

C5_Witness ==
    /\ pc = "done"
    /\ run.reader = "Payload"
    /\ run.acquire = "ok"
    /\ run.acquiredMagic = mHSS_BOOT_MAGIC
    /\ CrcMatches(payload.hdr)
    /\ run.registered = 1
    /\ run.regPtr = PAYLOAD
    /\ result = TRUE

\* C6: after the decompressor reported zero or a negative size the image
\* pointer is null and the run returns false without validating or
\* registering anything.
C6_DecompressFailureStops ==
    (pc \in {"validate", "done"} /\ run.decompress = 1 /\ run.outputSize <= 0)
    => (/\ pBootImage = NULL
        /\ run.crcChecks = 0
        /\ run.registered = 0
        /\ (pc = "done" => result = FALSE))

\* C7: HSS_Decompress is invoked at most once per run, and only after the
\* reader returned success with a non-null pointer to a header with the
\* compressed magic; a plain image never has it invoked.
C7_DecompressGated ==
    /\ run.decompress <= 1
    /\ run.decompress = 1
         => (/\ run.acquire = "ok"
             /\ run.acquiredPtr # NULL
             /\ run.acquiredMagic = mHSS_COMPRESSED_MAGIC)
    /\ (run.acquire # "none" /\ run.acquiredMagic = mHSS_BOOT_MAGIC)
         => run.decompress = 0

C7_Witness ==
    /\ run.decompress = 1
    /\ run.acquire = "ok"
    /\ run.acquiredMagic = mHSS_COMPRESSED_MAGIC

\* C8: when the partition lookup of the MMC reader fails, the header read at
\* offset 0 is still made, the reader's result is that of the generic path
\* alone (header read, magic check, full-image read), and a valid plain
\* image read from offset 0 is registered.
C8_LookupFailureFallsThrough ==
    (run.reader = "MMC" /\ run.gpt = "failed")
    => (/\ run.hdrRead # "none"
        /\ run.hdrOff = 0
        /\ run.copy # "none" => run.copyOff = 0
        /\ run.acquire # "none"
             => (run.acquire = "ok"
                   <=> (run.hdrRead = "ok" /\ run.magic = "ok" /\ run.copy = "ok"))
        /\ (/\ pc = "done"
            /\ run.hdrRead = "ok"
            /\ run.copy = "ok"
            /\ run.acquiredMagic = mHSS_BOOT_MAGIC
            /\ CrcMatches(ddr.hdr))
             => (run.registered = 1 /\ run.regPtr = DDR /\ result = run.launchOk))

C8_Witness ==
    /\ pc = "done"
    /\ run.reader = "MMC"
    /\ run.gpt = "failed"
    /\ run.hdrOff = 0
    /\ run.acquire = "ok"
    /\ run.registered = 1
    /\ result = TRUE

\* C9: every call of validateCrc_, whatever it returns, leaves the header as
\* it was before the call: headerCrc and every other field.
C9_HeaderUnchanged ==
    /\ \A i \in 1 .. Len(crcLog) :
         crcLog[i].op = "call" => crcLog[i].after = crcLog[i].before
    /\ (crcLog # <<>> /\ crcLog[Len(crcLog)].op = "call")
         => crcHdr = crcLog[Len(crcLog)].before

C9_Witness ==
    /\ Len(crcLog) = 2
    /\ crcLog[1].op = "call" /\ ~crcLog[1].result
    /\ crcLog[1].before.headerCrc # 0
    /\ crcLog[2].op = "call"
    /\ crcLog[2].before = crcLog[1].before
    /\ crcHdr = crcLog[1].before

\* C10: validateCrc_ returns true exactly when the CRC of the header with
\* headerCrc zeroed equals the stored headerCrc, and two calls in a row on
\* the same header return the same boolean.
C10_ResultIsCrcMatch ==
    /\ \A i \in 1 .. Len(crcLog) :
         crcLog[i].op = "call" => (crcLog[i].result <=> CrcMatches(crcLog[i].before))
    /\ \A i \in 1 .. (Len(crcLog) - 1) :
         (crcLog[i].op = "call" /\ crcLog[i + 1].op = "call")
           => (crcLog[i + 1].result <=> crcLog[i].result)

C10_Witness ==
    /\ Len(crcLog) = 2
    /\ crcLog[1].op = "call" /\ crcLog[1].result
    /\ crcLog[2].op = "call" /\ crcLog[2].result
    /\ crcLog[1].before.headerCrc # 0

\* C11: verifyMagic_ returns true exactly when the header's magic is the
\* plain or the compressed sentinel, and the header is the same after the
\* call as before it.
C11_MagicIffSentinel ==
    /\ \A i \in 1 .. Len(crcLog) :
         crcLog[i].op = "magic"
           => (/\ crcLog[i].result
                    <=> crcLog[i].before.magic
                          \in {mHSS_BOOT_MAGIC, mHSS_COMPRESSED_MAGIC}
               /\ crcLog[i].after = crcLog[i].before)
    /\ (crcLog # <<>> /\ crcLog[Len(crcLog)].op = "magic")
         => crcHdr = crcLog[Len(crcLog)].before

C11_Witness ==
    /\ Len(crcLog) = 2
    /\ crcLog[1].op = "mutate"
    /\ crcLog[1].before.magic = 0
    /\ crcLog[1].after.magic = mHSS_COMPRESSED_MAGIC
    /\ crcLog[2].op = "magic"
    /\ crcLog[2].result
    /\ crcHdr = crcLog[1].after

\* C12: when the header a reader examined (the scratch header after the
\* header read, or the header at _payload_start) has neither the plain nor
\* the compressed magic, the reader returns failure, a block-copy reader
\* issues no second read, and the run makes no CRC check and no
\* registration and returns false.
C12_MagicMismatchFails ==
    /\ (/\ run.reader \in BlockCopyReaders
        /\ run.hdrRead # "none"
        /\ bootImage.magic \notin {mHSS_BOOT_MAGIC, mHSS_COMPRESSED_MAGIC})
         => (/\ run.copy = "none"
             /\ run.acquire = "failed"
             /\ run.acquiredPtr = NULL
             /\ run.crcChecks = 0
             /\ run.registered = 0
             /\ run.launched = 0
             /\ (pc = "done" => result = FALSE))
    /\ (/\ run.reader = "Payload"
        /\ payload.hdr.magic \notin {mHSS_BOOT_MAGIC, mHSS_COMPRESSED_MAGIC})
         => (/\ run.acquire = "failed"
             /\ run.crcChecks = 0
             /\ run.registered = 0
             /\ run.launched = 0
             /\ (pc = "done" => result = FALSE))

C12_Witness ==
    /\ pc = "done"
    /\ run.reader = "MMC"
    /\ run.gpt = "ok"
    /\ run.hdrRead = "ok"
    /\ bootImage.magic = 0
    /\ run.magic = "failed"
    /\ run.acquire = "failed"
    /\ result = FALSE

\* C13: after any selection call the active reader is the one the last call
\* named; a selection call changes nothing else (scratch header, DDR
\* target, the locals and log of HSS_BootInit), and a call naming the reader
\* already named by the previous call changes nothing at all.
C13_SelectOnlyReader ==
    /\ [](lastSelect # "none"
            => (getBootImageFunction = lastSelect /\ lastSelect \in Readers))
    /\ [][(pc = "idle" /\ pc' = "idle")
            => (/\ UNCHANGED <<bootImage, ddr, payload, result, decompressedFlag,
                               pBootImage, run>>
                /\ getBootImageFunction' = lastSelect'
                /\ (lastSelect' = lastSelect
                      => getBootImageFunction' = getBootImageFunction))]_vars

C13_Witness ==
    /\ pc = "idle"
    /\ lastSelect = "QSPI"
    /\ getBootImageFunction = "QSPI"
    /\ bootImage.magic = mHSS_COMPRESSED_MAGIC
    /\ ddr.hdr.magic = mHSS_BOOT_MAGIC

\* C14: a run of HSS_BootInit invokes one reader, once, and it is the active
\* reader; no step of a run, failed or not, changes the active reader, so
\* the same reader is active when the run has returned.
C14_OneReaderPerRun ==
    /\ [](pc # "idle"
            => (/\ run.reader = getBootImageFunction
                /\ Cardinality({i \in DOMAIN run.trace :
                                   run.trace[i] = "acquire"}) = 1))
    /\ [][pc # "idle" => getBootImageFunction' = getBootImageFunction]_vars

C14_Witness ==
    /\ pc = "done"
    /\ run.reader = "QSPI"
    /\ run.copy = "failed"
    /\ run.acquire = "failed"
    /\ getBootImageFunction = "QSPI"
    /\ run.trace[1] = "acquire"

\* the place of a logged step in the order acquire, decompress, validate,
\* (diagnostic CRC,) register, launch, return
StageRank(stage) ==
    CASE stage = "acquire" -> 1
      [] stage = "decompress" -> 2
      [] stage = "validate" -> 3
      [] stage = "crc32" -> 4
      [] stage = "register" -> 5
      [] stage = "launch" -> 6
      [] OTHER -> 7

\* C15: the stages of a run happen in the order acquire, decompress,
\* validate, register, launch, each at most once; the launch collaborator is
\* called only after HSS_Register_Boot_Image in the same run; and after a
\* failure (the reader returned false, the decompressor returned no size,
\* the header CRC did not match) no further stage runs.
C15_StageOrder ==
    /\ \A i \in 1 .. (Len(run.trace) - 1) :
         StageRank(run.trace[i]) < StageRank(run.trace[i + 1])
    /\ run.launched <= run.registered
    /\ run.launched = 1
         => \E i, j \in DOMAIN run.trace :
              i < j /\ run.trace[i] = "register" /\ run.trace[j] = "launch"
    /\ run.acquire = "failed"
         => (/\ run.decompress = 0
             /\ run.crcChecks = 0
             /\ run.registered = 0
             /\ run.launched = 0)
    /\ (run.decompress = 1 /\ run.outputSize <= 0)
         => (run.crcChecks = 0 /\ run.registered = 0 /\ run.launched = 0)
    /\ (run.crcChecks = 1 /\ ~run.crcOk)
         => (run.registered = 0 /\ run.launched = 0)

\* C16: in a block-copy reader the second read is made only after
\* verifyMagic_ accepted the scratch header; it asks for the scratch
\* header's bootImageLength, at the byte offset and with the read primitive
\* of the header read (also when the partition lookup gave a non-zero first
\* block), into the DDR target; the reader succeeds exactly when that read
\* does and then reports the DDR target as the image pointer.
C16_SecondReadMatchesFirst ==
    (run.reader \in BlockCopyReaders /\ run.copy # "none")
    => (/\ run.magic = "ok"
        /\ verifyMagic_(bootImage)
        /\ run.copyCount = bootImage.bootImageLength
        /\ run.copyOff = run.hdrOff
        /\ run.reader = "MMC" => run.copyOff = run.srcOffset * GPT_LBA_SIZE
        /\ run.copyFn = run.hdrFn
        /\ run.copyDst = DDR
        /\ run.acquire = run.copy
        /\ run.acquire = "ok" => run.acquiredPtr = DDR)

C16_Witness ==
    /\ run.reader = "MMC"
    /\ run.gpt = "ok"
    /\ run.srcOffset = 1
    /\ run.hdrOff = GPT_LBA_SIZE
    /\ run.copy = "ok"
    /\ run.copyOff = GPT_LBA_SIZE
    /\ run.copyCount = MaxLen
    /\ run.copyFn = "HSS_MMC_ReadBlock"
    /\ run.acquiredPtr = DDR

\* C17: whether a run registers and what it returns are fixed by the header
\* of the image under validation (with the reader's and the launch
\* collaborator's results), whatever the words after the header are; the
\* full-length CRC is computed exactly on the path where the header CRC
\* did not match, and nothing is registered there.
C17_HeaderOnlyDecides ==
    pc = "done"
    => LET hdr == IF pBootImage = NULL THEN ZeroHeader
                  ELSE Deref(pBootImage).hdr
           hdrOk == /\ pBootImage # NULL
                    /\ hdr.magic = mHSS_BOOT_MAGIC
                    /\ CrcMatches(hdr)
           hdrBad == /\ pBootImage # NULL
                     /\ hdr.magic = mHSS_BOOT_MAGIC
                     /\ ~CrcMatches(hdr)
       IN  /\ run.registered = (IF hdrOk THEN 1 ELSE 0)
           /\ run.launched = run.registered
           /\ run.fullCrc = (IF hdrBad THEN 1 ELSE 0)
           /\ run.fullCrc = 1
                => (run.crcChecks = 1 /\ ~run.crcOk /\ run.registered = 0)
           /\ result = IF hdrOk THEN run.launchOk
                       ELSE IF hdrBad THEN run.acquire = "ok"
                       ELSE FALSE

C17_Witness ==
    /\ pc = "done"
    /\ run.registered = 1
    /\ run.regPtr = DDR
    /\ ddr.hdr.bootImageLength = MaxLen
    /\ ddr.body[MaxLen - HeaderSize] = 1
    /\ CRC32_calculate(Words(ddr), ddr.hdr.bootImageLength) # 0
    /\ run.fullCrc = 0
    /\ result = TRUE

\* C18: before any selection call the active reader is the one the build
\* configuration calls for: SPI flash when SPI-flash boot is enabled,
\* otherwise MMC when configured, otherwise QSPI when configured, otherwise
\* the payload reader; and that reader's medium is configured.
C18_InitialReaderFromConfig ==
    lastSelect = "none"
    => (/\ getBootImageFunction \in Readers
        /\ ReaderCompiled(config, getBootImageFunction)
        /\ getBootImageFunction =
              IF SPI_FLASH_BOOT_ENABLED(config) THEN "SpiFlash"
              ELSE IF config.CONFIG_SERVICE_MMC THEN "MMC"
              ELSE IF config.CONFIG_SERVICE_QSPI THEN "QSPI"
              ELSE "Payload")

\* C19: no run reads through a null image pointer: a reader that returned
\* true has stored a non-null pointer, so the compressed-magic test, guarded
\* by the reader's result alone, reads through a non-null pointer, and
\* HSS_Decompress, validateCrc_ and HSS_Register_Boot_Image are handed a
\* non-null pointer.
C19_NoNullDereference ==
    /\ ~run.nullDeref
    /\ run.acquire = "ok" => run.acquiredPtr # NULL
    /\ (pc = "acquired" /\ result) => pBootImage # NULL
    /\ run.decompress = 1 => run.acquiredPtr # NULL
    /\ run.crcChecks = 1 => pBootImage # NULL
    /\ run.registered = 1 => run.regPtr # NULL

C19_Witness ==
    /\ pc = "done"
    /\ run.acquire = "ok"
    /\ run.acquiredPtr = DDR
    /\ run.decompress = 1
    /\ run.outputSize = 0
    /\ pBootImage = NULL
    /\ run.crcChecks = 0
    /\ ~run.nullDeref

\* C20: whatever earlier runs left in the scratch header and in the DDR
\* target, a run registers or launches only an image it read itself: its
\* reader returned success, both reads of a block-copy reader succeeded,
\* and a decompression it made produced output.
C20_OnlyOwnImageRegistered ==
    (run.registered = 1 \/ run.launched = 1)
    => (/\ run.acquire = "ok"
        /\ run.reader \in BlockCopyReaders
             => (run.hdrRead = "ok" /\ run.copy = "ok")
        /\ run.decompress = 1 => run.outputSize > 0)

====
